---- MODULE Spec2Model ----
(***************************************************************************)
(* A model of the lock-free Future of package promise (src/future.go).     *)
(*                                                                         *)
(* The Future holds an atomically swapped pointer (val) to an immutable    *)
(* futureVal, a cancel flag (cancelStatus) and a completion channel        *)
(* (chEnd).  Every operation is modelled at the granularity of its shared  *)
(* memory accesses: an atomic load, a slice append (which may write into a *)
(* backing array shared with other futureVal copies), a compare-and-swap.  *)
(* The write side (Promise: NewPromise, Resolve, Reject, Cancel and the    *)
(* dispatch that follows settlement) is not part of src/future.go and is   *)
(* modelled from the specification, section 4.2.                           *)
(***************************************************************************)
EXTENDS Integers, Sequences, FiniteSets, Bags, TLC

(***************************************************************************)
(* Bounds of the model.                                                    *)
(***************************************************************************)
\* The number of calls made on the Future; any of them may run concurrently.
MaxCalls == 2
\* The registration race: the number of calls, and how many run concurrently.
RaceCalls == 6
RaceThreads == 2
\* How many invocations of one continuation are recorded (the rest repeat).
MaxSpin == 2
\* The chain: the number of calls.
ChainCalls == 5
\* The waiters: the number of calls.
GetCalls == 4
\* The retry loops: the number of calls, all of which may run concurrently.
LockFreeCalls == 2

(***************************************************************************)
(* Program constants.                                                      *)
(***************************************************************************)
CALLBACK_DONE == 0
CALLBACK_FAIL == 1
CALLBACK_ALWAYS == 2
CALLBACK_CANCEL == 3

RESULT_SUCCESS == 0
RESULT_FAILURE == 1
RESULT_CANCELLED == 2

CallbackTypes == {CALLBACK_DONE, CALLBACK_FAIL, CALLBACK_ALWAYS, CALLBACK_CANCEL}

\* Payloads a Promise is resolved or rejected with; CANCELLED is the payload
\* of a cancelled result.
Values == {5, 10}
Errors == {7}
CANCELLED == {0}

VARIABLES
    fut,        \* the Futures: fut[f] = [val, cancelStatus, chEnd]
    arrs,       \* the heap of slice backing arrays: arrs[a] is a sequence of cap elements
    calls,      \* the calls in flight (a bag): each its position (pc) and local variables
    log,        \* the callback invocations so far, in order
    reg,        \* reg[cb]: what became of the registration of callback cb
    rcTrue,     \* how many RequestCancel calls returned true
    pipeTab,    \* the pipe objects: pipeTab[p] = [pipeDoneTask, pipeFailTask, pipePromise]
    pcalls,     \* pcalls[k]: the k-th Pipe call, its arguments and what it returned
    clog,       \* the invocations of continuations so far, in order
    gets,       \* what the Get and GetOrTimeout calls returned, in order
    budget      \* how many more calls may start

vars == <<fut, arrs, calls, log, reg, rcTrue, pipeTab, pcalls, clog, gets, budget>>
pipeVars == <<pipeTab, pcalls, clog>>

(***************************************************************************)
(* Slices.  A Go slice is a header (array, len, cap) over a backing array; *)
(* copying a futureVal copies the headers and shares the arrays.           *)
(***************************************************************************)
NilSlice == [arr |-> 0, len |-> 0, cap |-> 0]

\* The elements a slice header shows, read from the heap now.
Elems(s) == IF s.arr = 0 THEN << >> ELSE SubSeq(arrs[s.arr], 1, s.len)

\* The capacity append allocates when the old one is full (runtime growslice
\* for pointer-sized elements below the doubling threshold).
growCap(cap) == IF cap = 0 THEN 1 ELSE cap + cap

\* append(s, x): the slice header it returns ...
appendHeader(s) ==
    IF s.len < s.cap
    THEN [s EXCEPT !.len = s.len + 1]
    ELSE [arr |-> Len(arrs) + 1, len |-> s.len + 1, cap |-> growCap(s.cap)]

\* ... and the heap after it: a write into the shared array when there is
\* room, a fresh array holding a copy otherwise.
appendHeap(s, x) ==
    IF s.len < s.cap
    THEN [arrs EXCEPT ![s.arr][s.len + 1] = x]
    ELSE Append(arrs, Elems(s) \o <<x>> \o [i \in 1..(growCap(s.cap) - s.len - 1) |-> 0])

(***************************************************************************)
(* PromiseResult and futureVal.                                            *)
(***************************************************************************)
NilResult == [Typ |-> -1, Result |-> 0]
PromiseResult(typ, v) == [Typ |-> typ, Result |-> v]

\* id stands for the address of the futureVal: a compare-and-swap compares it.
futureVal(id, r) ==
    [id |-> id, dones |-> NilSlice, fails |-> NilSlice, always |-> NilSlice,
     cancels |-> NilSlice, pipes |-> NilSlice, r |-> r]

NewFuture == [val |-> futureVal(0, NilResult), cancelStatus |-> 0, chEnd |-> FALSE]

loadVal(f) == fut[f].val
result(f) == loadVal(f).r

\* The frame of a call in flight.
Frame(pc, f) ==
    [pc |-> pc, f |-> f, cb |-> 0, t |-> 0, v |-> futureVal(0, NilResult),
     newVal |-> futureVal(0, NilResult), r |-> NilResult,
     callbacks |-> << >>, newPipe |-> 0, mm |-> 0, fn |-> 0]

InFlight == BagToSet(calls)
Enter(c) == calls (+) SetToBag({c})
Leave(c) == calls (-) SetToBag({c})
Goto(c, d) == (calls (-) SetToBag({c})) (+) SetToBag({d})

InitWith(n) ==
    /\ fut = <<NewFuture>>
    /\ arrs = << >>
    /\ calls = EmptyBag
    /\ log = << >>
    /\ reg = << >>
    /\ rcTrue = 0
    /\ pipeTab = << >>
    /\ pcalls = << >>
    /\ clog = << >>
    /\ gets = << >>
    /\ budget = n

Init == InitWith(MaxCalls)

\* A call starts while the budget lasts.
Call ==
    /\ budget > 0
    /\ budget' = budget - 1

(***************************************************************************)
(* RequestCancel / IsCancelled                                             *)
(***************************************************************************)
\* ccstatus := LoadInt32(&cancelStatus); a non-zero flag returns false here.
RequestCancel(f) ==
    /\ Call
    /\ calls' = IF fut[f].cancelStatus = 0
                THEN Enter(Frame("RequestCancel_cas", f))
                ELSE calls
    /\ UNCHANGED <<gets, fut, arrs, log, reg, rcTrue, pipeVars>>

\* The Futures after CompareAndSwapInt32(&cancelStatus, 0, 1).
requestCancelSettles(f) ==
    [fut EXCEPT ![f] = [val |-> futureVal(fut[f].val.id + 1, PromiseResult(RESULT_CANCELLED, 0)),
                        cancelStatus |-> 2, chEnd |-> TRUE]]
requestCancelSwap(f) ==
    IF fut[f].cancelStatus = 0
    THEN [fut EXCEPT ![f].cancelStatus = 1]
    ELSE fut

\* CompareAndSwapInt32(&cancelStatus, 0, 1), its outcome ignored; return true.
RequestCancelCAS(c) ==
    /\ c.pc = "RequestCancel_cas"
    /\ fut' = requestCancelSwap(c.f)
    /\ calls' = Leave(c)
    /\ rcTrue' = rcTrue + 1
    /\ UNCHANGED <<gets, arrs, log, reg, budget, pipeVars>>

isCancelledOnRequest(f) == fut[f].cancelStatus >= 1
isCancelled(f) == fut[f].cancelStatus = 2

\* IsCancelled reads the flag and changes nothing.
IsCancelled(f) ==
    /\ Call
    /\ isCancelled(f) \in BOOLEAN
    /\ UNCHANGED <<gets, fut, arrs, calls, log, reg, rcTrue, pipeVars>>

(***************************************************************************)
(* OnSuccess / OnFailure / OnComplete / OnCancel -> addCallback            *)
(***************************************************************************)
\* Does a callback of kind t fire on a result of type typ?
matchesAlwaysOnCancel(t, typ) ==
    \/ t = CALLBACK_DONE /\ typ = RESULT_SUCCESS
    \/ t = CALLBACK_FAIL /\ typ = RESULT_FAILURE
    \/ t = CALLBACK_ALWAYS
    \/ t = CALLBACK_CANCEL /\ typ = RESULT_CANCELLED
matches(t, typ) ==
    \/ t = CALLBACK_DONE /\ typ = RESULT_SUCCESS
    \/ t = CALLBACK_FAIL /\ typ = RESULT_FAILURE
    \/ t = CALLBACK_ALWAYS /\ typ # RESULT_CANCELLED
    \/ t = CALLBACK_CANCEL /\ typ = RESULT_CANCELLED

\* A func value (0: the nil func) converted to the interface{} parameter of
\* addCallback: the interface value has a type, whatever the func value is.
\* The nil interface has none.
interfaceOf(fn) == [typed |-> TRUE, fn |-> fn]
NilInterface == [typed |-> FALSE, fn |-> 0]

\* The record of registration cb, written when its call starts or ends.
\* late: the Future was settled already when the call was made; fn: the func
\* value passed.
setReg(cb, kind, f, st, fn) ==
    [i \in 1..(IF cb > Len(reg) THEN cb ELSE Len(reg)) |->
        IF i = cb
        THEN [t |-> kind, f |-> f, st |-> st, fn |-> fn,
              late |-> IF cb > Len(reg) THEN result(f) # NilResult ELSE reg[cb].late]
        ELSE reg[i]]

\* One pass through the top of the loop: load the futureVal.  With a result
\* in it the callback runs here if it matches (the call of a nil func
\* panics), and the call returns either way.  next is the bag of the other
\* calls in flight.
addCallbackLoop(next, f, cb, kind, fn) ==
    LET v == loadVal(f)
    IN IF v.r = NilResult
       THEN /\ calls' = next (+) SetToBag({[Frame("addCallback_append", f) EXCEPT
                                                !.cb = cb, !.t = kind, !.v = v, !.fn = fn]})
            /\ reg' = setReg(cb, kind, f, "calling", fn)
            /\ log' = log
       ELSE /\ calls' = next
            /\ IF matches(kind, v.r.Typ)
               THEN IF fn = 0
                    THEN /\ log' = Append(log, [cb |-> cb, arg |-> v.r.Result, by |-> "panic"])
                         /\ reg' = setReg(cb, kind, f, "panic", fn)
                    ELSE /\ log' = Append(log, [cb |-> cb, arg |-> v.r.Result, by |-> "inline"])
                         /\ reg' = setReg(cb, kind, f, "inline", fn)
               ELSE /\ log' = log
                    /\ reg' = setReg(cb, kind, f, "nomatch", fn)

\* addCallback(callback, t): a nil interface returns at once.
addCallback(f, callback, kind) ==
    IF callback = NilInterface
    THEN /\ reg' = setReg(Len(reg) + 1, kind, f, "ignored", callback.fn)
         /\ UNCHANGED <<calls, log>>
    ELSE addCallbackLoop(calls, f, Len(reg) + 1, kind, callback.fn)

\* OnSuccess, OnFailure, OnComplete, OnCancel with a non-nil callback: the
\* callback is named after its registration.
OnCallback(f, kind) ==
    /\ Call
    /\ addCallback(f, interfaceOf(Len(reg) + 1), kind)
    /\ UNCHANGED <<gets, fut, arrs, rcTrue, pipeVars>>

\* OnSuccess(nil), OnFailure(nil), OnComplete(nil), OnCancel(nil).
OnCallbackNil(f, kind) ==
    /\ Call
    /\ addCallback(f, interfaceOf(0), kind)
    /\ UNCHANGED <<gets, fut, arrs, rcTrue, pipeVars>>

\* The retry after a lost compare-and-swap.
AddCallbackLoad(c) ==
    /\ c.pc = "addCallback"
    /\ addCallbackLoop(Leave(c), c.f, c.cb, c.t, c.fn)
    /\ UNCHANGED <<gets, fut, arrs, rcTrue, budget, pipeVars>>

\* newVal := *v, then the append to the list of the callback's kind.
AddCallbackAppend(c) ==
    /\ c.pc = "addCallback_append"
    /\ LET v == c.v
           s == CASE c.t = CALLBACK_DONE -> v.dones
                  [] c.t = CALLBACK_FAIL -> v.fails
                  [] c.t = CALLBACK_ALWAYS -> v.always
                  [] c.t = CALLBACK_CANCEL -> v.cancels
           h == appendHeader(s)
           newVal == CASE c.t = CALLBACK_DONE -> [v EXCEPT !.dones = h]
                       [] c.t = CALLBACK_FAIL -> [v EXCEPT !.fails = h]
                       [] c.t = CALLBACK_ALWAYS -> [v EXCEPT !.always = h]
                       [] c.t = CALLBACK_CANCEL -> [v EXCEPT !.cancels = h]
       IN /\ arrs' = appendHeap(s, c.fn)
          /\ calls' = Goto(c, [c EXCEPT !.pc = "addCallback_cas", !.newVal = newVal])
    /\ UNCHANGED <<gets, fut, log, reg, rcTrue, budget, pipeVars>>

\* CompareAndSwapPointer(&this.val, v, &newVal): does it succeed, and the
\* Futures after it does.
casAlways(f, v) == TRUE
casNever(f, v) == FALSE
casOk(f, v) == loadVal(f).id = v.id
casVal(f, v, newVal) == [fut EXCEPT ![f].val = [newVal EXCEPT !.id = v.id + 1]]

AddCallbackCAS(c) ==
    /\ c.pc = "addCallback_cas"
    /\ IF casOk(c.f, c.v)
       THEN /\ fut' = casVal(c.f, c.v, c.newVal)
            /\ reg' = setReg(c.cb, c.t, c.f, "queued", c.fn)
            /\ calls' = Leave(c)
       ELSE /\ calls' = Goto(c, [c EXCEPT !.pc = "addCallback"])
            /\ UNCHANGED <<fut, reg>>
    /\ UNCHANGED <<gets, arrs, log, rcTrue, budget, pipeVars>>

(***************************************************************************)
(* Pipe                                                                    *)
(***************************************************************************)
\* getPipe(isResolved): the task and the Promise of pipe p.
getPipe(p, isResolved) ==
    IF isResolved THEN <<p.pipeDoneTask, p.pipePromise>>
    ELSE <<p.pipeFailTask, p.pipePromise>>

\* The first test of Pipe: no callback, or only nil ones.
noCallbacksOneArg(callbacks) ==
    \/ Len(callbacks) = 0
    \/ Len(callbacks) = 1 /\ callbacks[1] = 0
noCallbacks(callbacks) ==
    \/ Len(callbacks) = 0
    \/ Len(callbacks) = 1 /\ callbacks[1] = 0
    \/ Len(callbacks) > 1 /\ callbacks[1] = 0 /\ callbacks[2] = 0

\* The named return value ok where that test returns.
okOfEarlyReturn == FALSE

\* The record of Pipe call k.
setPcall(k, rec) ==
    [i \in 1..(IF k > Len(pcalls) THEN k ELSE Len(pcalls)) |->
        IF i = k THEN rec ELSE pcalls[i]]

\* The top of the loop: load the futureVal and branch on its result.
pipeLoop(next, c) ==
    LET v == loadVal(c.f)
    IN calls' = next (+) SetToBag({[c EXCEPT
                    !.pc = IF v.r # NilResult THEN "Pipe_settled" ELSE "Pipe_append",
                    !.v = v]})

\* Pipe(callbacks...): the arguments are given as nil or not (0 or 1); the
\* tasks of call k are named 2k-1 and 2k.
Pipe(f, form) ==
    /\ Call
    /\ LET k == Len(pcalls) + 1
           callbacks == [i \in 1..Len(form) |-> IF form[i] = 1 THEN 2 * (k - 1) + i ELSE 0]
           rec == [f |-> f, callbacks |-> callbacks, st |-> "calling", result |-> 0,
                   ok |-> FALSE, late |-> result(f) # NilResult, spins |-> 0]
       IN IF noCallbacks(callbacks)
          THEN /\ pcalls' = Append(pcalls, [rec EXCEPT !.st = "returned", !.result = f,
                                                        !.ok = okOfEarlyReturn])
               /\ calls' = calls
          ELSE /\ pcalls' = Append(pcalls, rec)
               /\ pipeLoop(calls, [Frame("Pipe", f) EXCEPT !.cb = k, !.callbacks = callbacks])
    /\ UNCHANGED <<gets, fut, arrs, log, reg, rcTrue, pipeTab, clog>>

\* The loop again: after a lost compare-and-swap, and after the settled branch.
PipeLoad(c) ==
    /\ c.pc = "Pipe"
    /\ pipeLoop(Leave(c), c)
    /\ UNCHANGED <<gets, fut, arrs, log, reg, rcTrue, pipeVars, budget>>

\* The task the settled branch runs on a result of type typ (0: none).
settledTask(callbacks, typ) ==
    IF typ = RESULT_SUCCESS /\ callbacks[1] # 0 THEN callbacks[1]
    ELSE IF typ = RESULT_FAILURE /\ Len(callbacks) > 1 /\ callbacks[2] # 0 THEN callbacks[2]
    ELSE 0

\* The invocations of a task.
TaskRuns(task) == SelectSeq(clog, LAMBDA e : e.task = task)

\* The settled branch: result = this, or what the matching task returns (a
\* Future of its own making); no break follows, the loop goes on.  Past
\* MaxSpin runs of a task the record repeats.
PipeSettled(c) ==
    /\ c.pc = "Pipe_settled"
    /\ LET task == settledTask(c.callbacks, c.v.r.Typ)
           k == c.cb
           spins == IF pcalls[k].spins < MaxSpin THEN pcalls[k].spins + 1 ELSE MaxSpin
       IN IF task = 0
          THEN /\ pcalls' = setPcall(k, [pcalls[k] EXCEPT !.result = c.f, !.spins = spins])
               /\ UNCHANGED <<fut, clog>>
          ELSE IF Len(TaskRuns(task)) < MaxSpin
          THEN /\ clog' = Append(clog, [task |-> task, arg |-> c.v.r.Result,
                                        fut |-> Len(fut) + 1, promise |-> 0, by |-> "inline"])
               /\ fut' = Append(fut, NewFuture)
               /\ pcalls' = setPcall(k, [pcalls[k] EXCEPT !.result = Len(fut) + 1, !.spins = spins])
          ELSE /\ pcalls' = setPcall(k, [pcalls[k] EXCEPT !.spins = spins])
               /\ UNCHANGED <<fut, clog>>
    /\ calls' = Goto(c, [c EXCEPT !.pc = "Pipe"])
    /\ UNCHANGED <<gets, arrs, log, reg, rcTrue, pipeTab, budget>>

\* The pending branch: a new pipe with a new Promise, appended to the copy.
PipeAppend(c) ==
    /\ c.pc = "Pipe_append"
    /\ LET newPipe == [pipeDoneTask |-> c.callbacks[1],
                       pipeFailTask |-> IF Len(c.callbacks) > 1 THEN c.callbacks[2] ELSE 0,
                       pipePromise |-> Len(fut) + 1]
       IN /\ pipeTab' = Append(pipeTab, newPipe)
          /\ fut' = Append(fut, NewFuture)
          /\ arrs' = appendHeap(c.v.pipes, Len(pipeTab) + 1)
          /\ calls' = Goto(c, [c EXCEPT !.pc = "Pipe_cas",
                                        !.newPipe = Len(pipeTab) + 1,
                                        !.newVal = [c.v EXCEPT !.pipes = appendHeader(c.v.pipes)]])
    /\ UNCHANGED <<gets, log, reg, rcTrue, pcalls, clog, budget>>

\* The compare-and-swap: on success result = newPipe.pipePromise.Future and
\* the loop ends; ok = true.
PipeCAS(c) ==
    /\ c.pc = "Pipe_cas"
    /\ IF casOk(c.f, c.v)
       THEN /\ fut' = casVal(c.f, c.v, c.newVal)
            /\ pcalls' = setPcall(c.cb, [pcalls[c.cb] EXCEPT
                            !.st = "returned", !.ok = TRUE,
                            !.result = pipeTab[c.newPipe].pipePromise])
            /\ calls' = Leave(c)
       ELSE /\ calls' = Goto(c, [c EXCEPT !.pc = "Pipe"])
            /\ UNCHANGED <<fut, pcalls>>
    /\ UNCHANGED <<gets, arrs, log, reg, rcTrue, pipeTab, clog, budget>>

(***************************************************************************)
(* Promise: Resolve / Reject / Cancel (specification 4.2)                  *)
(***************************************************************************)
\* Steps 1 and 2: read the snapshot; a terminal one makes the call a no-op.
setResultLoop(next, f, r) ==
    LET v == loadVal(f)
    IN calls' = IF v.r # NilResult
                THEN next
                ELSE next (+) SetToBag({[Frame("setResult_cas", f) EXCEPT !.r = r, !.v = v]})

\* Resolve(v), Reject(err), Cancel().
Settle(f, r) ==
    /\ Call
    /\ setResultLoop(calls, f, r)
    /\ UNCHANGED <<gets, fut, arrs, log, reg, rcTrue, pipeVars>>

\* The retry after a lost compare-and-swap.
SetResultLoad(c) ==
    /\ c.pc = "setResult"
    /\ setResultLoop(Leave(c), c.f, c.r)
    /\ UNCHANGED <<gets, fut, arrs, log, reg, rcTrue, budget, pipeVars>>

\* Steps 3 and 5: install the terminal snapshot (the result, empty lists), or
\* retry.  A Cancelled result takes the cancel flag to Cancelled with it.
SetResultCAS(c) ==
    /\ c.pc = "setResult_cas"
    /\ IF casOk(c.f, c.v)
       THEN /\ fut' = [casVal(c.f, c.v, futureVal(0, c.r)) EXCEPT
                         ![c.f].cancelStatus =
                             IF c.r.Typ = RESULT_CANCELLED THEN 2 ELSE @]
            /\ calls' = Goto(c, [c EXCEPT !.pc = "setResult_drain"])
       ELSE /\ calls' = Goto(c, [c EXCEPT !.pc = "setResult"])
            /\ fut' = fut
    /\ UNCHANGED <<gets, arrs, log, reg, rcTrue, budget, pipeVars>>

\* The callbacks of the displaced snapshot v that a result of type typ fires,
\* in registration order.
execCallback(v, typ) ==
    CASE typ = RESULT_SUCCESS -> Elems(v.dones) \o Elems(v.always)
      [] typ = RESULT_FAILURE -> Elems(v.fails) \o Elems(v.always)
      [] typ = RESULT_CANCELLED -> Elems(v.cancels)

\* The pipes of the displaced snapshot v that fire: for every pipe the task
\* getPipe selects and its Promise, those with a task.
firedPipes(v, typ) ==
    LET ps == Elems(v.pipes)
    IN SelectSeq([i \in 1..Len(ps) |-> getPipe(pipeTab[ps[i]], typ = RESULT_SUCCESS)],
                 LAMBDA x : x[1] # 0)

\* The Promises downstream of Future f: those of the pipes whose task
\* returned f.
downstream(f) == {clog[i].promise : i \in {j \in 1..Len(clog) : clog[j].fut = f /\ clog[j].promise # 0}}

\* A pending downstream Promise settled with r.
settled(F, r) ==
    IF F.val.r # NilResult THEN F
    ELSE [val |-> futureVal(F.val.id + 1, r),
          cancelStatus |-> IF r.Typ = RESULT_CANCELLED THEN 2 ELSE F.cancelStatus,
          chEnd |-> TRUE]

\* Step 4: fire the completion signal and drain the displaced snapshot: the
\* callbacks (the call of a nil func panics), then the pipes, each task run with the payload and the Future it
\* returns (one of its own making) feeding the pipe's Promise.  The outcome of
\* this Future is fed to the Promises downstream of it.
SetResultDrain(c) ==
    /\ c.pc = "setResult_drain"
    /\ LET cbs == execCallback(c.v, c.r.Typ)
           fired == firedPipes(c.v, c.r.Typ)
           down == downstream(c.f)
       IN /\ log' = log \o [i \in 1..Len(cbs) |->
                               [cb |-> cbs[i], arg |-> c.r.Result,
                                by |-> IF cbs[i] = 0 THEN "panic" ELSE "drain"]]
          /\ clog' = clog \o [j \in 1..Len(fired) |->
                               [task |-> fired[j][1], arg |-> c.r.Result,
                                fut |-> Len(fut) + j, promise |-> fired[j][2], by |-> "drain"]]
          /\ fut' = [g \in 1..Len(fut) |->
                        IF g = c.f THEN [fut[g] EXCEPT !.chEnd = TRUE]
                        ELSE IF g \in down THEN settled(fut[g], c.r)
                        ELSE fut[g]]
                    \o [j \in 1..Len(fired) |-> NewFuture]
    /\ calls' = Leave(c)
    /\ UNCHANGED <<gets, arrs, reg, rcTrue, pipeTab, pcalls, budget>>

Results ==
    {PromiseResult(RESULT_SUCCESS, v) : v \in Values}
    \cup {PromiseResult(RESULT_FAILURE, e) : e \in Errors}
    \cup {PromiseResult(RESULT_CANCELLED, e) : e \in CANCELLED}

(***************************************************************************)
(* Get / GetOrTimeout                                                      *)
(***************************************************************************)
\* The nil value and the nil error of a return.
nil == -1

\* getFutureReturnVal: (value, nil) for Success, (nil, error) for Failure and
\* for Cancelled (the CANCELLED error).
getFutureReturnVal(r) ==
    IF r.Typ = RESULT_SUCCESS THEN <<r.Result, nil>> ELSE <<nil, r.Result>>

\* <-this.chEnd can proceed: the channel is closed.
chEndIgnored(f) == TRUE
chEndClosed(f) == fut[f].chEnd

\* Get() is called; it blocks on chEnd.
Get(f) ==
    /\ Call
    /\ calls' = Enter(Frame("Get", f))
    /\ UNCHANGED <<gets, fut, arrs, log, reg, rcTrue, pipeVars>>

\* The receive from chEnd, then return getFutureReturnVal(this.result()).
GetRecv(c) ==
    /\ c.pc = "Get"
    /\ chEndClosed(c.f)
    /\ LET ret == getFutureReturnVal(result(c.f))
       IN gets' = Append(gets, [f |-> c.f, op |-> "Get", val |-> ret[1], err |-> ret[2],
                                timout |-> FALSE])
    /\ calls' = Leave(c)
    /\ UNCHANGED <<fut, arrs, log, reg, rcTrue, pipeVars, budget>>

\* The duration GetOrTimeout(mm) waits, in nanoseconds.
timeoutNanos(mm) == IF mm = 0 THEN 10 ELSE mm * 1000 * 1000

\* GetOrTimeout(mm) is called; it blocks in the select.
GetOrTimeout(f, mm) ==
    /\ Call
    /\ calls' = Enter([Frame("GetOrTimeout", f) EXCEPT !.mm = timeoutNanos(mm)])
    /\ UNCHANGED <<gets, fut, arrs, log, reg, rcTrue, pipeVars>>

\* case <-time.After(...): return nil, nil, true.
timerFiredNoFlag(f) == [f |-> f, op |-> "GetOrTimeout", val |-> nil, err |-> nil, timout |-> FALSE]
timerFired(f) == [f |-> f, op |-> "GetOrTimeout", val |-> nil, err |-> nil, timout |-> TRUE]

\* The timer fires, at some time after the call.
GetOrTimeoutTimer(c) ==
    /\ c.pc = "GetOrTimeout"
    /\ gets' = Append(gets, timerFired(c.f))
    /\ calls' = Leave(c)
    /\ UNCHANGED <<fut, arrs, log, reg, rcTrue, pipeVars, budget>>

\* case <-this.chEnd: return r, err, false.
GetOrTimeoutRecv(c) ==
    /\ c.pc = "GetOrTimeout"
    /\ chEndClosed(c.f)
    /\ LET ret == getFutureReturnVal(result(c.f))
       IN gets' = Append(gets, [f |-> c.f, op |-> "GetOrTimeout", val |-> ret[1],
                                err |-> ret[2], timout |-> FALSE])
    /\ calls' = Leave(c)
    /\ UNCHANGED <<fut, arrs, log, reg, rcTrue, pipeVars, budget>>

GetStep(c) ==
    \/ GetRecv(c)
    \/ GetOrTimeoutTimer(c)
    \/ GetOrTimeoutRecv(c)

Next ==
    \/ \E kind \in CallbackTypes : OnCallback(1, kind)
    \/ \E r \in Results : Settle(1, r)
    \/ RequestCancel(1)
    \/ IsCancelled(1)
    \/ \E c \in InFlight :
        \/ AddCallbackLoad(c)
        \/ AddCallbackAppend(c)
        \/ AddCallbackCAS(c)
        \/ SetResultLoad(c)
        \/ SetResultCAS(c)
        \/ SetResultDrain(c)
        \/ RequestCancelCAS(c)

Spec == Init /\ [][Next]_vars

(***************************************************************************)
(* The registration race: OnComplete calls and one Reject, at most         *)
(* RaceThreads of them in flight at a time.                                *)
(***************************************************************************)
InitRace == InitWith(RaceCalls)

NextRace ==
    \/ /\ BagCardinality(calls) < RaceThreads
       /\ OnCallback(1, CALLBACK_ALWAYS)
    \/ /\ BagCardinality(calls) < RaceThreads
       /\ \E e \in Errors : Settle(1, PromiseResult(RESULT_FAILURE, e))
    \/ \E c \in InFlight :
        \/ AddCallbackLoad(c)
        \/ AddCallbackAppend(c)
        \/ AddCallbackCAS(c)
        \/ SetResultLoad(c)
        \/ SetResultCAS(c)
        \/ SetResultDrain(c)

SpecRace == InitRace /\ [][NextRace]_vars

(***************************************************************************)
(* Pipe calls of every form and settle calls on one Future.                *)
(***************************************************************************)
Forms == {<< >>, <<0>>, <<0, 0>>, <<1>>, <<1, 0>>, <<0, 1>>, <<1, 1>>}

PipeStep(c) ==
    \/ PipeLoad(c)
    \/ PipeSettled(c)
    \/ PipeAppend(c)
    \/ PipeCAS(c)

SettleStep(c) ==
    \/ SetResultLoad(c)
    \/ SetResultCAS(c)
    \/ SetResultDrain(c)

NextPipe ==
    \/ \E form \in Forms : Pipe(1, form)
    \/ \E r \in Results : Settle(1, r)
    \/ \E c \in InFlight : PipeStep(c)
    \/ \E c \in InFlight : SettleStep(c)

SpecPipe == Init /\ [][NextPipe]_vars

\* Every call in flight keeps being scheduled.
FairPipe ==
    /\ \A k \in 1..MaxCalls : WF_vars(\E c \in InFlight : c.cb = k /\ PipeStep(c))
    /\ WF_vars(\E c \in InFlight : SettleStep(c))

SpecPipeFair == SpecPipe /\ FairPipe

(***************************************************************************)
(* The chain: Pipe(f) calls on one Future while it is pending, its Resolve *)
(* and the Resolve of the Futures the tasks return, each called while its  *)
(* Future is pending; at most RaceThreads calls at a time.                 *)
(***************************************************************************)
InitChain == InitWith(ChainCalls)

\* The Futures the tasks have returned.
inner == {clog[i].fut : i \in 1..Len(clog)}

NextChain ==
    \/ /\ BagCardinality(calls) < RaceThreads
       /\ result(1) = NilResult
       /\ Pipe(1, <<1>>)
    \/ /\ BagCardinality(calls) < RaceThreads
       /\ result(1) = NilResult
       /\ Settle(1, PromiseResult(RESULT_SUCCESS, 5))
    \/ /\ BagCardinality(calls) < RaceThreads
       /\ \E g \in inner : result(g) = NilResult /\ Settle(g, PromiseResult(RESULT_SUCCESS, 10))
    \/ \E c \in InFlight : PipeStep(c)
    \/ \E c \in InFlight : SettleStep(c)

SpecChain == InitChain /\ [][NextChain]_vars

(***************************************************************************)
(* Waiters: Get and GetOrTimeout calls and settle calls on one Future.     *)
(***************************************************************************)
InitGet == InitWith(GetCalls)

\* The arguments of GetOrTimeout, in milliseconds.
Millis == {0, 1}

NextGet ==
    \/ Get(1)
    \/ \E mm \in Millis : GetOrTimeout(1, mm)
    \/ \E r \in Results : Settle(1, r)
    \/ \E c \in InFlight : GetStep(c)
    \/ \E c \in InFlight : SettleStep(c)

SpecGet == InitGet /\ [][NextGet]_vars

(***************************************************************************)
(* Registrations of nil callbacks, of callbacks, and settle calls.         *)
(***************************************************************************)
AddCallbackStep(c) ==
    \/ AddCallbackLoad(c)
    \/ AddCallbackAppend(c)
    \/ AddCallbackCAS(c)

NextNil ==
    \/ \E kind \in CallbackTypes : OnCallbackNil(1, kind)
    \/ \E kind \in CallbackTypes : OnCallback(1, kind)
    \/ \E r \in Results : Settle(1, r)
    \/ \E c \in InFlight : AddCallbackStep(c)
    \/ \E c \in InFlight : SettleStep(c)

SpecNil == Init /\ [][NextNil]_vars

(***************************************************************************)
(* Every operation of the Future, with settle calls, on one Future.        *)
(***************************************************************************)
NextFuture ==
    \/ \E kind \in CallbackTypes : OnCallback(1, kind)
    \/ \E form \in Forms : Pipe(1, form)
    \/ RequestCancel(1)
    \/ IsCancelled(1)
    \/ Get(1)
    \/ \E mm \in Millis : GetOrTimeout(1, mm)
    \/ \E r \in Results : Settle(1, r)
    \/ \E c \in InFlight : AddCallbackStep(c)
    \/ \E c \in InFlight : PipeStep(c)
    \/ \E c \in InFlight : RequestCancelCAS(c)
    \/ \E c \in InFlight : GetStep(c)
    \/ \E c \in InFlight : SettleStep(c)

SpecFuture == Init /\ [][NextFuture]_vars

(***************************************************************************)
(* The retry loops: registrations, Pipe calls and settle calls on one      *)
(* Future.                                                                 *)
(***************************************************************************)
InitLockFree == InitWith(LockFreeCalls)

NextLockFree ==
    \/ OnCallback(1, CALLBACK_DONE)
    \/ Pipe(1, <<1>>)
    \/ Settle(1, PromiseResult(RESULT_SUCCESS, 5))
    \/ \E c \in InFlight : AddCallbackStep(c)
    \/ \E c \in InFlight : PipeStep(c)
    \/ \E c \in InFlight : SettleStep(c)

\* Some registration in flight takes a step again and again, and so does some
\* settle call; nothing is assumed of the Pipe calls.
FairLockFree ==
    /\ WF_vars(\E c \in InFlight : AddCallbackStep(c))
    /\ WF_vars(\E c \in InFlight : SettleStep(c))

SpecLockFree == InitLockFree /\ [][NextLockFree]_vars /\ FairLockFree

(***************************************************************************)
(* What the claims speak of.                                               *)
(***************************************************************************)
\* How often x occurs in the sequence s.
Count(s, x) == Cardinality({i \in 1..Len(s) : s[i] = x})

\* The list of the current snapshot of f that holds callbacks of kind t.
listOf(v, t) ==
    CASE t = CALLBACK_DONE -> Elems(v.dones)
      [] t = CALLBACK_FAIL -> Elems(v.fails)
      [] t = CALLBACK_ALWAYS -> Elems(v.always)
      [] t = CALLBACK_CANCEL -> Elems(v.cancels)

\* The invocations of callback cb.
Invocations(cb) == SelectSeq(log, LAMBDA e : e.cb = cb)

Callbacks == 1..Len(reg)

\* The outcomes each kind of callback is registered for.
Registered ==
    {<<CALLBACK_DONE, RESULT_SUCCESS>>, <<CALLBACK_FAIL, RESULT_FAILURE>>,
     <<CALLBACK_ALWAYS, RESULT_SUCCESS>>, <<CALLBACK_ALWAYS, RESULT_FAILURE>>,
     <<CALLBACK_CANCEL, RESULT_CANCELLED>>}

\* C1: on a pending Future every callback whose registration has returned is
\* in the list of its kind of the current snapshot exactly once (none
\* dropped, none duplicated), whatever the interleaving of the load, append
\* and compare-and-swap steps of the registrations.
C1_RegisteredOnceInSnapshot ==
    \A cb \in Callbacks :
        (reg[cb].st = "queued" /\ result(reg[cb].f) = NilResult)
            => Count(listOf(loadVal(reg[cb].f), reg[cb].t), cb) = 1

\* C2: once OnComplete calls and a Reject(err) racing with them have all
\* returned, every callback was invoked exactly once, with err.
C2_EachOnceWithErr ==
    (calls = EmptyBag /\ result(1) # NilResult)
        => \A cb \in Callbacks :
              /\ Len(Invocations(cb)) = 1
              /\ Invocations(cb)[1].arg = result(1).Result

\* C3: a registration made on a settled Future has returned, and its callback
\* was invoked exactly once, inline, with the payload of the result, if the
\* outcome is one its kind is registered for; otherwise it was not invoked;
\* in neither case is it in a list of the snapshot.
C3_LateRegistration ==
    \A cb \in Callbacks :
        reg[cb].late =>
            LET r == result(reg[cb].f)
                inv == Invocations(cb)
            IN /\ reg[cb].st \in {"inline", "nomatch"}
               /\ IF <<reg[cb].t, r.Typ>> \in Registered
                  THEN /\ Len(inv) = 1
                       /\ inv[1].by = "inline"
                       /\ inv[1].arg = r.Result
                  ELSE Len(inv) = 0
               /\ \A t \in CallbackTypes : Count(listOf(loadVal(reg[cb].f), t), cb) = 0

C3_Witness ==
    \E cb \in Callbacks :
        /\ reg[cb].late
        /\ reg[cb].st = "inline"
        /\ Len(Invocations(cb)) = 1

\* C4: over all the RequestCancel calls on the Future, at most one returned
\* true.
C4_AtMostOneTrue == rcTrue <= 1

PipeCalls == 1..Len(pcalls)

\* The pipes of the current snapshot of f.
pipesOf(f) == LET ps == Elems(loadVal(f).pipes) IN [i \in 1..Len(ps) |-> pipeTab[ps[i]]]

\* The step is a Pipe call without a usable continuation: no argument, one
\* nil, or two nils.
NilPipeCalled ==
    /\ Len(pcalls') = Len(pcalls) + 1
    /\ pcalls'[Len(pcalls')].callbacks \in {<< >>, <<0>>, <<0, 0>>}

\* C6 as stated: a Pipe call without a usable continuation returns
\* (self, true) and leaves the snapshot unchanged.
C6_NilPipeReturnsSelfTrue ==
    [][NilPipeCalled =>
          LET p == pcalls'[Len(pcalls')]
          IN /\ p.st = "returned" /\ p.result = p.f /\ p.ok = TRUE
             /\ fut' = fut /\ arrs' = arrs /\ calls' = calls]_vars

\* C6 as amended: a Pipe call without a usable continuation returns
\* (self, false): the result is the receiver, ok is false (the early return
\* is taken before ok is set), and the snapshot is left unchanged.
C6_NilPipeReturnsSelfFalse ==
    [][NilPipeCalled =>
          LET p == pcalls'[Len(pcalls')]
          IN /\ p.st = "returned" /\ p.result = p.f /\ p.ok = FALSE
             /\ fut' = fut /\ arrs' = arrs /\ calls' = calls]_vars

C6_Witness ==
    \E k \in PipeCalls :
        /\ pcalls[k].callbacks = <<0, 0>>
        /\ pcalls[k].st = "returned"
        /\ pcalls[k].result = 1

\* C7: every Pipe call returns.
C7_PipeReturns ==
    \A k \in 1..MaxCalls :
        (Len(pcalls) >= k) ~> (Len(pcalls) >= k /\ pcalls[k].st = "returned")

\* C8: a Pipe call made on a settled Future runs the matching task exactly
\* once, with the payload, and returns the Future the task returned, ok true;
\* without a matching task (none given for the outcome, or a Cancelled
\* outcome) it runs none and returns (self, true).  So once the settled branch
\* has run the call has returned, and no task has run twice.
C8_SettledPipe ==
    \A k \in PipeCalls :
        (pcalls[k].late /\ pcalls[k].spins >= 1) =>
            LET p == pcalls[k]
                task == IF result(p.f).Typ = RESULT_SUCCESS THEN p.callbacks[1]
                        ELSE IF result(p.f).Typ = RESULT_FAILURE /\ Len(p.callbacks) > 1
                             THEN p.callbacks[2]
                        ELSE 0
            IN /\ p.st = "returned" /\ p.ok = TRUE
               /\ IF task = 0
                  THEN /\ p.result = p.f
                       /\ \A i \in 1..Len(p.callbacks) : Len(TaskRuns(p.callbacks[i])) = 0
                  ELSE /\ Len(TaskRuns(task)) = 1
                       /\ TaskRuns(task)[1].arg = result(p.f).Result
                       /\ p.result = TaskRuns(task)[1].fut

\* C9: once a Pipe call has returned from its compare-and-swap, the Future it
\* returned is not the receiver, and while the receiver is pending exactly one
\* pipe of its snapshot has the Promise of the returned Future.
C9_PipeRecordOnce ==
    \A k \in PipeCalls :
        (pcalls[k].st = "returned" /\ pcalls[k].ok) =>
            /\ pcalls[k].result # pcalls[k].f
            /\ result(pcalls[k].f) = NilResult =>
                   Cardinality({i \in 1..Len(pipesOf(pcalls[k].f)) :
                        pipesOf(pcalls[k].f)[i].pipePromise = pcalls[k].result}) = 1

\* C10: for a call Pipe(f) made on a pending Future: f runs at most once, with
\* the value the Future is resolved with; and once every call has returned,
\* the Future resolved, f has run once, the Pipe call has returned, and if
\* the Future f returned is resolved with w, so is the Future Pipe returned.
C10_ChainResolves ==
    \A k \in PipeCalls :
        ~pcalls[k].late =>
            LET f == pcalls[k].callbacks[1]
                runs == TaskRuns(f)
            IN /\ Len(runs) <= 1
               /\ \A i \in 1..Len(runs) : runs[i].arg = result(1).Result
               /\ (calls = EmptyBag /\ result(1) # NilResult) =>
                     /\ Len(runs) = 1
                     /\ pcalls[k].st = "returned"
                     /\ result(runs[1].fut) # NilResult =>
                            result(pcalls[k].result) = result(runs[1].fut)

\* The returns of Get and GetOrTimeout calls.
Gets == 1..Len(gets)

\* C11: a Get call returns only when the Future is settled, and every Get
\* call returns the outcome of the one terminal result of the Future (of type
\* Success, Failure or Cancelled), the same for every call.
C11_GetReturnsTerminal ==
    \A i \in Gets :
        gets[i].op = "Get" =>
            /\ result(gets[i].f) # NilResult
            /\ result(gets[i].f).Typ \in {RESULT_SUCCESS, RESULT_FAILURE, RESULT_CANCELLED}
            /\ <<gets[i].val, gets[i].err>> = getFutureReturnVal(result(gets[i].f))
            /\ \A j \in Gets :
                   (gets[j].op = "Get" /\ gets[j].f = gets[i].f)
                       => gets[j].val = gets[i].val /\ gets[j].err = gets[i].err

C11_Witness ==
    \E i, j \in Gets :
        /\ i < j
        /\ gets[i].op = "Get" /\ gets[j].op = "Get"
        /\ gets[i].val = 5 /\ gets[j].val = 5

\* The last return is a GetOrTimeout whose timer fired.
TimedOut ==
    /\ Len(gets') = Len(gets) + 1
    /\ gets'[Len(gets')].timout

\* C12: a GetOrTimeout whose timer fires returns (nil, nil, true) and leaves
\* the snapshot, the cancel flag and the completion signal as they were; a
\* GetOrTimeout returns timout = false only on a settled Future, with its
\* outcome; and a Get or GetOrTimeout after a timed-out one returns the
\* outcome of the terminal result.
C12_TimeoutChangesNothing ==
    /\ [][TimedOut => /\ gets'[Len(gets')].val = nil
                      /\ gets'[Len(gets')].err = nil
                      /\ fut' = fut /\ arrs' = arrs]_vars
    /\ [](\A i \in Gets :
            /\ gets[i].timout => gets[i].val = nil /\ gets[i].err = nil
            /\ ~gets[i].timout =>
                  /\ result(gets[i].f) # NilResult
                  /\ <<gets[i].val, gets[i].err>> = getFutureReturnVal(result(gets[i].f)))

C12_Witness ==
    \E i, j, k \in Gets :
        /\ i < j /\ i < k
        /\ gets[i].timout
        /\ gets[j].op = "Get" /\ gets[j].val = 5
        /\ gets[k].op = "GetOrTimeout" /\ ~gets[k].timout /\ gets[k].val = 5

\* C13: a registration of a nil callback has returned at once and done
\* nothing: no list of the snapshot holds a nil callback, nothing was invoked
\* for it and no call failed, whether the Future was pending or settled at
\* the call and whatever it settled to.
C13_NilCallbackIgnored ==
    /\ \A cb \in Callbacks :
          reg[cb].fn = 0 =>
              /\ reg[cb].st = "ignored"
              /\ Len(Invocations(cb)) = 0
    /\ \A t \in CallbackTypes : Count(listOf(loadVal(1), t), 0) = 0
    /\ \A i \in 1..Len(log) : log[i].by # "panic"

\* C14: a RequestCancel call leaves the snapshot pointer and the completion
\* signal of the Future as they were (a pending Future stays pending, a
\* settled one keeps its result); a Future gets its result only from the
\* compare-and-swap of a settle call, the Cancelled result from a Cancel.
C14_RequestCancelNeverSettles ==
    [][/\ rcTrue' # rcTrue =>
             \A f \in 1..Len(fut) : fut'[f].val = fut[f].val /\ fut'[f].chEnd = fut[f].chEnd
       /\ \A f \in 1..Len(fut) :
             fut'[f].val.r # fut[f].val.r =>
                 \E c \in InFlight : /\ c.pc = "setResult_cas"
                                     /\ c.f = f
                                     /\ c.r = fut'[f].val.r
                                     /\ fut[f].val.r = NilResult]_vars

C14_Witness ==
    /\ rcTrue >= 1
    /\ fut[1].cancelStatus = 1
    /\ result(1) = NilResult
    /\ ~fut[1].chEnd
    /\ calls = EmptyBag

\* C20: the cancel flag never decreases, and a RequestCancel call returns
\* true only from a flag that is still 0 (NotRequested) when it makes its
\* transition: a call racing with or following another transition returns
\* false and writes nothing.
C20_FlagMonotonic ==
    [][/\ \A f \in 1..Len(fut) : fut'[f].cancelStatus >= fut[f].cancelStatus
       /\ rcTrue' > rcTrue => fut[1].cancelStatus = 0]_vars

\* What a futureVal shows, read from the heap given: the elements of its
\* five lists and its result.
ElemsIn(heap, s) == IF s.arr = 0 THEN << >> ELSE SubSeq(heap[s.arr], 1, s.len)
contents(heap, v) ==
    [dones |-> ElemsIn(heap, v.dones), fails |-> ElemsIn(heap, v.fails),
     always |-> ElemsIn(heap, v.always), cancels |-> ElemsIn(heap, v.cancels),
     pipes |-> ElemsIn(heap, v.pipes), r |-> v.r]

\* C15: while a futureVal stays installed in Future.val, what its dones,
\* fails, always, cancels and pipes lists and its result show does not
\* change, whatever the concurrent addCallback and Pipe calls do.
C15_SnapshotImmutable ==
    [][\A f \in 1..Len(fut) :
          fut'[f].val.id = fut[f].val.id =>
              contents(arrs', fut'[f].val) = contents(arrs, fut[f].val)]_vars

\* The slice of futureVal v that holds the callbacks of kind t.
sliceOf(v, t) ==
    CASE t = CALLBACK_DONE -> v.dones
      [] t = CALLBACK_FAIL -> v.fails
      [] t = CALLBACK_ALWAYS -> v.always
      [] t = CALLBACK_CANCEL -> v.cancels

\* C17: on a pending Future the list of each kind of the current snapshot is
\* the sequence of the callbacks of that kind in the order their
\* compare-and-swaps succeeded: a step that installs a new pending snapshot is
\* the compare-and-swap of one registration and extends the list of its kind
\* by its callback, at the end, every other element of every list staying as
\* it was; and no other step changes what the lists show.
C17_ListInCASOrder ==
    [][(fut[1].val.r = NilResult /\ fut'[1].val.r = NilResult) =>
          IF fut'[1].val.id # fut[1].val.id
          THEN \E c \in InFlight :
                  /\ c.pc = "addCallback_cas"
                  /\ c.v.id = fut[1].val.id
                  /\ \A t \in CallbackTypes :
                        ElemsIn(arrs', sliceOf(fut'[1].val, t)) =
                            IF t = c.t
                            THEN Append(ElemsIn(arrs, sliceOf(fut[1].val, t)), c.fn)
                            ELSE ElemsIn(arrs, sliceOf(fut[1].val, t))
          ELSE \A t \in CallbackTypes :
                  ElemsIn(arrs', sliceOf(fut'[1].val, t)) = ElemsIn(arrs, sliceOf(fut[1].val, t))]_vars

\* C16: once the snapshot of a Future carries a result no step replaces it:
\* the result stays and the lists stay empty.  A registration is queued, and
\* a Pipe returns the Future of a new pipe, only by a compare-and-swap on a
\* pending Future; a registration that finds the Future settled when it
\* retries ends in the already-settled branch, and a Pipe call goes there.
C16_SettledIsTerminal ==
    [][/\ \A f \in 1..Len(fut) :
             fut[f].val.r # NilResult =>
                 /\ fut'[f].val = fut[f].val
                 /\ contents(arrs', fut'[f].val) = contents(arrs, fut[f].val)
       /\ \A cb \in 1..Len(reg) :
             /\ (reg[cb].st = "calling" /\ reg'[cb].st = "queued")
                    => fut[reg[cb].f].val.r = NilResult
             /\ (reg[cb].st = "calling" /\ reg'[cb].st # "calling"
                                         /\ fut[reg[cb].f].val.r # NilResult)
                    => reg'[cb].st \in {"inline", "nomatch"}
       /\ \A k \in 1..Len(pcalls) :
             (pcalls[k].st = "calling" /\ pcalls'[k].st = "returned")
                 => fut[pcalls[k].f].val.r = NilResult
       /\ \A c \in InFlight :
             fut[c.f].val.r # NilResult =>
                 /\ AddCallbackCAS(c) => [c EXCEPT !.pc = "addCallback"] \in BagToSet(calls')
                 /\ PipeCAS(c) => [c EXCEPT !.pc = "Pipe"] \in BagToSet(calls')
                 /\ PipeLoad(c) => \E d \in BagToSet(calls') :
                                       d.pc = "Pipe_settled" /\ d.cb = c.cb]_vars

C16_Witness ==
    /\ \E cb \in Callbacks : ~reg[cb].late /\ reg[cb].st = "inline"
    /\ result(1) # NilResult

\* C18: for a Pipe stored on a pending Future (its call returned the Future
\* of the new pipe), once the Future is settled and drained: onSuccess has
\* run exactly once if the outcome is Success and not at all otherwise,
\* onFailure has run exactly once if the outcome is Failure and not at all
\* otherwise (so neither runs on Cancelled, and a success-only Pipe runs
\* nothing on Failure), each with the payload of the result.
C18_PipeSelection ==
    \A k \in PipeCalls :
        (pcalls[k].st = "returned" /\ pcalls[k].ok /\ fut[pcalls[k].f].chEnd) =>
            LET r == result(pcalls[k].f)
                onSuccess == pcalls[k].callbacks[1]
                onFailure == IF Len(pcalls[k].callbacks) > 1 THEN pcalls[k].callbacks[2] ELSE 0
            IN /\ onSuccess # 0 =>
                     Len(TaskRuns(onSuccess)) = IF r.Typ = RESULT_SUCCESS THEN 1 ELSE 0
               /\ onFailure # 0 =>
                     Len(TaskRuns(onFailure)) = IF r.Typ = RESULT_FAILURE THEN 1 ELSE 0
               /\ \A i \in 1..Len(clog) :
                     clog[i].task \in {onSuccess, onFailure} => clog[i].arg = r.Result

\* C19: a call that is back at the top of its loop after a failed
\* compare-and-swap (addCallback, the pending branch of Pipe, settle) finds
\* the snapshot replaced since its load, by the successful compare-and-swap of
\* another call; every registration call returns; and a settle call in flight
\* leads to a settled Future.
C19_LockFree ==
    /\ [](\A c \in InFlight :
            (\/ c.pc \in {"addCallback", "setResult"}
             \/ c.pc = "Pipe" /\ c.v.r = NilResult)
                => loadVal(c.f).id > c.v.id)
    /\ \A cb \in 1..LockFreeCalls :
          (Len(reg) >= cb) ~> (Len(reg) >= cb /\ reg[cb].st # "calling")
    /\ (\E c \in InFlight : c.pc \in {"setResult", "setResult_cas"})
          ~> (result(1) # NilResult /\ fut[1].chEnd)

C19_Witness ==
    /\ \E c \in InFlight : c.pc = "setResult" /\ loadVal(c.f).id > c.v.id
    /\ \E cb \in Callbacks : reg[cb].st = "queued"
====
